---- MODULE Spec2Model ----
(***************************************************************************)
(* Model of php_property_calculator.py: the PHPPropertyCalculator form.    *)
(*                                                                         *)
(* State: the Tk variables the handlers read and write (calc_mode,         *)
(* calc_basis, selected_fluid, the five entry texts, the three correlation *)
(* outputs) and the last_results slot.  One action per event handler.      *)
(*                                                                         *)
(* Numbers.  Python floats are modelled as exact rationals <<n, d>> with   *)
(* d > 0 in lowest terms.  The sample inputs are chosen so that every      *)
(* operation of the code that is exact on the reals is exact here          *)
(* (the only root taken, (g*D_m)**0.5, is of a perfect square).            *)
(*                                                                         *)
(* Entry texts.  A text is [k, v]: k = "empty" (""), k = "junk" (a         *)
(* non-numeric string), or k = "num": the decimal numeral of v/1000.       *)
(*                                                                         *)
(* Oracle.  CoolProp's PropsSI is external.  Its values are a fixed        *)
(* function of the query; which query it rejects (raises ValueError on)    *)
(* is chosen by the environment at each handler run.                       *)
(***************************************************************************)
EXTENDS Integers, Sequences, FiniteSets, TLC

\* ------------------------------------------------------------------------
\* Bounds of the model
\* ------------------------------------------------------------------------

\* number of user events (edits, clicks, focus changes) in one session
MaxOps == 4

\* ------------------------------------------------------------------------
\* Rational arithmetic standing for Python float arithmetic
\* ------------------------------------------------------------------------

Abs(n) == IF n < 0 THEN -n ELSE n

RECURSIVE GCD(_, _)
GCD(a, b) == IF b = 0 THEN a ELSE GCD(b, a % b)

Rat(n, d) ==
    LET s == IF d < 0 THEN -1 ELSE 1
        g == GCD(Abs(n), Abs(d))
    IN  <<(s * n) \div g, (s * d) \div g>>

Zero == <<0, 1>>
One == <<1, 1>>

RMul(a, b) ==
    LET g1 == GCD(Abs(a[1]), b[2])
        g2 == GCD(Abs(b[1]), a[2])
    IN  Rat((a[1] \div g1) * (b[1] \div g2), (a[2] \div g2) * (b[2] \div g1))

\* a / b for b # 0
RDiv(a, b) == RMul(a, IF b[1] < 0 THEN <<-b[2], -b[1]>> ELSE <<b[2], b[1]>>)

RAdd(a, b) ==
    LET g == GCD(a[2], b[2])
    IN  Rat(a[1] * (b[2] \div g) + b[1] * (a[2] \div g), (a[2] \div g) * b[2])

RSub(a, b) == RAdd(a, <<-b[1], b[2]>>)

RLt(a, b) == a[1] * b[2] < b[1] * a[2]

RLe(a, b) == a[1] * b[2] <= b[1] * a[2]

RECURSIVE SqrtSearch(_, _, _)
SqrtSearch(n, lo, hi) ==
    IF lo >= hi THEN lo
    ELSE LET mid == (lo + hi + 1) \div 2
         IN  IF mid * mid <= n THEN SqrtSearch(n, mid, hi)
             ELSE SqrtSearch(n, lo, mid - 1)

ISqrt(n) == SqrtSearch(n, 0, IF n < 46340 THEN n ELSE 46340)

\* x ** 0.5 for x > 0 (exact: numerator and denominator are squares for
\* every sample input)
RSqrt(x) == <<ISqrt(x[1]), ISqrt(x[2])>>

\* Python's None
None == <<>>

\* ------------------------------------------------------------------------
\* Entry texts, float() and the "{:.2f}" format
\* ------------------------------------------------------------------------

Empty == [k |-> "empty", v |-> 0]
Junk == [k |-> "junk", v |-> 0]
Num(milli) == [k |-> "num", v |-> milli]

\* float(text) raises ValueError on "" and on a non-numeric string
FloatOk(text) == text.k = "num"

FloatOf(text) == Rat(text.v, 1000)

\* nearest integer to n/d, ties to even
RoundDiv(n, d) ==
    LET q == n \div d
        r == n % d
    IN  IF 2 * r < d THEN q
        ELSE IF 2 * r > d THEN q + 1
        ELSE IF q % 2 = 0 THEN q ELSE q + 1

\* f"{x:.2f}": the numeral of x rounded to two decimals
Fmt2(x) == Num(10 * RoundDiv(100 * x[1], x[2]))

\* ------------------------------------------------------------------------
\* The property oracle (CoolProp PropsSI), an external collaborator
\* ------------------------------------------------------------------------

\* three fluids of the catalogue self.fluids; "Helium" is fluids[0]
Fluids == {"Helium", "Nitrogen", "Water"}

\* PropsSI(out, n1, v1, n2, v2, fluid)
Query(out, n1, v1, n2, v2, fluid) ==
    [out |-> out, n1 |-> n1, v1 |-> v1, n2 |-> n2, v2 |-> v2, fluid |-> fluid]

\* sample saturation curve, in K and Pa
Tsat100 == <<9319, 25>>

SatPressure(T) ==
    IF T = Tsat100 THEN <<100000, 1>>
    ELSE IF RLt(T, Tsat100) THEN <<3537, 1>> ELSE <<245770, 1>>

SatTemperature(P) ==
    IF P = <<100000, 1>> THEN Tsat100
    ELSE IF RLt(P, <<100000, 1>>) THEN <<15001, 50>> ELSE <<400, 1>>

\* outputs for which the sample oracle answers 0 for "Nitrogen": viscosity,
\* conductivity and surface tension, the divisors of the dimensionless numbers
ZeroOutputs == {"V", "L", "I"}

\* sample property values on the liquid and on the vapor side (SI units);
\* "Nitrogen" has the values of "Helium" except for ZeroOutputs
LiquidValue(fluid, out) ==
    IF fluid = "Nitrogen" /\ out \in ZeroOutputs THEN Zero
    ELSE IF fluid = "Water"
    THEN CASE out = "D" -> <<1001, 1>>
           [] out = "V" -> <<1, 1000>>
           [] out = "C" -> <<4000, 1>>
           [] out = "CVMASS" -> <<3800, 1>>
           [] out = "L" -> <<1, 2>>
           [] out = "H" -> <<400000, 1>>
           [] out = "S" -> <<1300, 1>>
           [] out = "A" -> <<1500, 1>>
           [] out = "I" -> <<1, 20>>
    ELSE CASE out = "D" -> <<126, 1>>
           [] out = "V" -> <<1, 1000>>
           [] out = "C" -> <<5000, 1>>
           [] out = "CVMASS" -> <<2500, 1>>
           [] out = "L" -> <<1, 50>>
           [] out = "H" -> <<10000, 1>>
           [] out = "S" -> <<3500, 1>>
           [] out = "A" -> <<180, 1>>
           [] out = "I" -> <<1, 10000>>

VaporValue(fluid, out) ==
    IF fluid = "Nitrogen" /\ out \in ZeroOutputs THEN Zero
    ELSE IF fluid = "Water"
    THEN CASE out = "D" -> <<1, 1>>
           [] out = "V" -> <<1, 100000>>
           [] out = "C" -> <<2000, 1>>
           [] out = "CVMASS" -> <<1500, 1>>
           [] out = "L" -> <<1, 40>>
           [] out = "H" -> <<2600000, 1>>
           [] out = "S" -> <<7300, 1>>
           [] out = "A" -> <<470, 1>>
           [] out = "I" -> <<1, 20>>
    ELSE CASE out = "D" -> <<26, 1>>
           [] out = "V" -> <<1, 500000>>
           [] out = "C" -> <<9000, 1>>
           [] out = "CVMASS" -> <<3200, 1>>
           [] out = "L" -> <<1, 100>>
           [] out = "H" -> <<30000, 1>>
           [] out = "S" -> <<8500, 1>>
           [] out = "A" -> <<100, 1>>
           [] out = "I" -> <<1, 10000>>

\* the value PropsSI returns when it does not raise
PropsSI(q) ==
    IF q.out = "P" THEN SatPressure(q.v1)
    ELSE IF q.out = "T" THEN SatTemperature(q.v1)
    ELSE IF q.n2 = "Q"
    THEN RAdd(LiquidValue(q.fluid, q.out),
              RMul(q.v2, RSub(VaporValue(q.fluid, q.out),
                              LiquidValue(q.fluid, q.out))))
    ELSE IF RLt(q.v1, SatTemperature(q.v2))
    THEN LiquidValue(q.fluid, q.out)
    ELSE VaporValue(q.fluid, q.out)

\* What the oracle rejects in one handler run: nothing, every query for
\* one output property, or the queries for it on the vapor side (Q = 1).
Outputs == {"P", "T", "D", "V", "C", "CVMASS", "L", "H", "S", "A", "I"}

VaporOutputs == {"D", "V", "C", "CVMASS", "H", "S", "A"}

NoReject == [out |-> "none", side |-> "all"]

Rejections ==
    {NoReject} \cup [out : Outputs, side : {"all"}]
               \cup [out : VaporOutputs, side : {"vapor"}]

\* PropsSI raises ValueError on q
Rejected(rej, q) ==
    /\ rej.out = q.out
    /\ \/ rej.side = "all"
       \/ q.n2 = "Q" /\ q.v2 = One

\* ------------------------------------------------------------------------
\* The dimensionless numbers (the same formulas in all three branches)
\* ------------------------------------------------------------------------

\* g = 9.81
Gravity == <<981, 100>>

\* variant: the velocity factor is left out
Reynolds_no_velocity(rho, u_ms, D_m, mu) ==
    IF mu # Zero THEN RDiv(RMul(rho, D_m), mu) ELSE Zero

\* Re = (rho * u_ms * D_m) / mu if mu != 0 else 0
Reynolds(rho, u_ms, D_m, mu) ==
    IF mu # Zero THEN RDiv(RMul(RMul(rho, u_ms), D_m), mu) ELSE Zero

\* Pr = (cp * mu) / k if k != 0 else 0
Prandtl(cp, mu, k) ==
    IF k # Zero THEN RDiv(RMul(cp, mu), k) ELSE Zero

\* Fr = u_ms / (g * D_m)**0.5 if (g * D_m) > 0 else 0
Froude(u_ms, D_m) ==
    IF RLt(Zero, RMul(Gravity, D_m))
    THEN RDiv(u_ms, RSqrt(RMul(Gravity, D_m)))
    ELSE Zero

\* Ca = (mu * u_ms) / sigma if sigma != 0 else 0
Capillary(mu, u_ms, sigma) ==
    IF sigma # Zero THEN RDiv(RMul(mu, u_ms), sigma) ELSE Zero

\* variant: with zero surface tension the numerator is returned undivided
Bond_zero_sigma_numerator(rho_l, rho_v, D_m, sigma) ==
    IF sigma # Zero
    THEN RDiv(RMul(RMul(Gravity, RSub(rho_l, rho_v)), RMul(D_m, D_m)), sigma)
    ELSE RMul(RMul(Gravity, RSub(rho_l, rho_v)), RMul(D_m, D_m))

\* Bo = (g * (rho_l - rho_v) * D_m**2) / sigma if sigma != 0 else 0
Bond(rho_l, rho_v, D_m, sigma) ==
    IF sigma # Zero
    THEN RDiv(RMul(RMul(Gravity, RSub(rho_l, rho_v)), RMul(D_m, D_m)), sigma)
    ELSE Zero

\* variant: the velocity enters the Weber number to the first power
Weber_linear_velocity(rho_l, u_ms, D_m, sigma) ==
    IF sigma # Zero
    THEN RDiv(RMul(RMul(rho_l, u_ms), D_m), sigma)
    ELSE Zero

\* We_l = (rho_l * u_ms**2 * D_m) / sigma if sigma != 0 else 0
Weber(rho_l, u_ms, D_m, sigma) ==
    IF sigma # Zero
    THEN RDiv(RMul(RMul(rho_l, RMul(u_ms, u_ms)), D_m), sigma)
    ELSE Zero

\* ------------------------------------------------------------------------
\* _calculate_properties and its two branches
\* ------------------------------------------------------------------------

\* What a run of the calculation leaves behind: whether it returned a
\* record, the record (None after an exception), the oracle queries it
\* issued in order, and the texts of the two state entries afterwards.
Returned(result, log, temp, press) ==
    [ok |-> TRUE, result |-> result, log |-> log, temp |-> temp, press |-> press]

\* except Exception: messagebox.showerror(...); return None
Raised(log, temp, press) ==
    [ok |-> FALSE, result |-> None, log |-> log, temp |-> temp, press |-> press]

\* the queries of a log that the oracle rejected
RejectedIn(log, rej) == {log[i] : i \in {j \in 1..Len(log) : Rejected(rej, log[j])}}

\* The queries of qs that are issued: all of them, or those up to the
\* first one whose ValueError is not caught.
FatalAt(qs, caught, rej) ==
    {i \in 1..Len(qs) : Rejected(rej, qs[i]) /\ i \notin caught}

Issued(qs, caught, rej) ==
    LET fatal == FatalAt(qs, caught, rej)
    IN  IF fatal = {} THEN qs
        ELSE SubSeq(qs, 1, CHOOSE i \in fatal : \A j \in fatal : i <= j)

\* variant: an out-of-range quality is let through
QualityInRange_unchecked(Q) == TRUE

\* if not (0 <= Q <= 1): raise ValueError
QualityInRange(Q) == RLe(Zero, Q) /\ RLe(Q, One)

\* variant: the opposite entry is filled only when it is empty
SaturationPoint_keep_typed(basis, temp, press, Q, fluid) ==
    IF basis = "T"
    THEN LET T_K == FloatOf(temp)
             q == Query("P", "T", T_K, "Q", Q, fluid)
             P_kPa == RDiv(PropsSI(q), <<1000, 1>>)
         IN  [parsed |-> FloatOk(temp), q |-> q, T_K |-> T_K, P_kPa |-> P_kPa,
              temp |-> temp,
              press |-> IF press.k = "empty" THEN Fmt2(P_kPa) ELSE press]
    ELSE LET P_kPa == FloatOf(press)
             P_Pa == RMul(P_kPa, <<1000, 1>>)
             q == Query("T", "P", P_Pa, "Q", Q, fluid)
             T_K == PropsSI(q)
         IN  [parsed |-> FloatOk(press), q |-> q, T_K |-> T_K, P_kPa |-> P_kPa,
              temp |-> IF temp.k = "empty" THEN Fmt2(T_K) ELSE temp,
              press |-> press]

\* The saturation state point from the basis entry: the state query, the
\* resolved T_K and P_kPa, and the entry texts after the opposite entry is
\* overwritten.
SaturationPoint(basis, temp, press, Q, fluid) ==
    IF basis = "T"
    THEN LET T_K == FloatOf(temp)
             q == Query("P", "T", T_K, "Q", Q, fluid)
             P_kPa == RDiv(PropsSI(q), <<1000, 1>>)
         IN  [parsed |-> FloatOk(temp), q |-> q, T_K |-> T_K, P_kPa |-> P_kPa,
              temp |-> temp, press |-> Fmt2(P_kPa)]
    ELSE LET P_kPa == FloatOf(press)
             P_Pa == RMul(P_kPa, <<1000, 1>>)
             q == Query("T", "P", P_Pa, "Q", Q, fluid)
             T_K == PropsSI(q)
         IN  [parsed |-> FloatOk(press), q |-> q, T_K |-> T_K, P_kPa |-> P_kPa,
              temp |-> Fmt2(T_K), press |-> press]

\* variant: the mixture density is queried on the liquid side
TwoPhaseQueries_liquid_density(T_K, Q, fluid) ==
    << Query("D", "T", T_K, "Q", Zero, fluid),
       Query("V", "T", T_K, "Q", Q, fluid),
       Query("C", "T", T_K, "Q", Q, fluid),
       Query("CVMASS", "T", T_K, "Q", Q, fluid),
       Query("L", "T", T_K, "Q", Q, fluid),
       Query("H", "T", T_K, "Q", Q, fluid),
       Query("S", "T", T_K, "Q", Q, fluid),
       Query("A", "T", T_K, "Q", Q, fluid),
       Query("I", "T", T_K, "Q", Zero, fluid) >>

\* the eight mixture property queries, then the surface tension query
TwoPhaseQueries(T_K, Q, fluid) ==
    << Query("D", "T", T_K, "Q", Q, fluid),
       Query("V", "T", T_K, "Q", Q, fluid),
       Query("C", "T", T_K, "Q", Q, fluid),
       Query("CVMASS", "T", T_K, "Q", Q, fluid),
       Query("L", "T", T_K, "Q", Q, fluid),
       Query("H", "T", T_K, "Q", Q, fluid),
       Query("S", "T", T_K, "Q", Q, fluid),
       Query("A", "T", T_K, "Q", Q, fluid),
       Query("I", "T", T_K, "Q", Zero, fluid) >>

\* variant: the speed-of-sound query is not wrapped in try/except
TwoPhaseCaught_none == {}

\* try: sound = PropsSI('A', ...) except ValueError: sound = None
TwoPhaseCaught == {8}

\* branch "if quality_str:" of _calculate_saturated_properties
TwoPhaseBranch(fluid, D_m, u_ms, basis, temp, press, quality, rej) ==
    IF ~(FloatOk(quality) /\ QualityInRange(FloatOf(quality)))
    THEN Raised(<<>>, temp, press)
    ELSE
    LET Q == FloatOf(quality)
        pt == SaturationPoint(basis, temp, press, Q, fluid)
        qs == TwoPhaseQueries(pt.T_K, Q, fluid)
        log == <<pt.q>> \o Issued(qs, TwoPhaseCaught, rej)
        rho == PropsSI(qs[1])
        mu == PropsSI(qs[2])
        cp == PropsSI(qs[3])
        cv == PropsSI(qs[4])
        k == PropsSI(qs[5])
        h == PropsSI(qs[6])
        s == PropsSI(qs[7])
        sound == IF Rejected(rej, qs[8]) THEN None ELSE PropsSI(qs[8])
        sigma == PropsSI(qs[9])
        Re == Reynolds(rho, u_ms, D_m, mu)
        Pr == Prandtl(cp, mu, k)
    IN  IF ~pt.parsed THEN Raised(<<>>, temp, press)
        ELSE IF Rejected(rej, pt.q) THEN Raised(<<pt.q>>, temp, press)
        ELSE IF FatalAt(qs, TwoPhaseCaught, rej) # {}
        THEN Raised(log, pt.temp, pt.press)
        ELSE Returned(
               [mode |-> "TwoPhase",
                inputs |-> [fluid |-> fluid, T_K |-> pt.T_K,
                            P_kPa |-> pt.P_kPa, Q |-> Q],
                properties |-> [rho |-> rho, mu |-> mu, cp |-> cp, cv |-> cv,
                                k |-> k, h |-> h, s |-> s, sound |-> sound],
                dimensionless_numbers |->
                    [Re |-> Re, Pr |-> Pr, Fr |-> Froude(u_ms, D_m),
                     Ca |-> Capillary(mu, u_ms, sigma), Pe |-> RMul(Re, Pr)]],
               log, pt.temp, pt.press)

\* the nine liquid-side queries (Q = 0), then the seven vapor-side (Q = 1)
SaturatedQueries(T_K, fluid) ==
    << Query("D", "T", T_K, "Q", Zero, fluid),
       Query("V", "T", T_K, "Q", Zero, fluid),
       Query("C", "T", T_K, "Q", Zero, fluid),
       Query("CVMASS", "T", T_K, "Q", Zero, fluid),
       Query("L", "T", T_K, "Q", Zero, fluid),
       Query("I", "T", T_K, "Q", Zero, fluid),
       Query("H", "T", T_K, "Q", Zero, fluid),
       Query("S", "T", T_K, "Q", Zero, fluid),
       Query("A", "T", T_K, "Q", Zero, fluid),
       Query("D", "T", T_K, "Q", One, fluid),
       Query("V", "T", T_K, "Q", One, fluid),
       Query("C", "T", T_K, "Q", One, fluid),
       Query("CVMASS", "T", T_K, "Q", One, fluid),
       Query("H", "T", T_K, "Q", One, fluid),
       Query("S", "T", T_K, "Q", One, fluid),
       Query("A", "T", T_K, "Q", One, fluid) >>

\* the dual-branch part of _calculate_saturated_properties (no quality)
SaturatedBranch(fluid, D_m, u_ms, basis, temp, press, rej) ==
    LET pt == SaturationPoint(basis, temp, press, Zero, fluid)
        qs == SaturatedQueries(pt.T_K, fluid)
        log == <<pt.q>> \o Issued(qs, {}, rej)
        rho_l == PropsSI(qs[1])
        mu_l == PropsSI(qs[2])
        cp_l == PropsSI(qs[3])
        k_l == PropsSI(qs[5])
        sigma == PropsSI(qs[6])
        h_l == PropsSI(qs[7])
        rho_v == PropsSI(qs[10])
        h_v == PropsSI(qs[14])
        Re_l == Reynolds(rho_l, u_ms, D_m, mu_l)
        Pr_l == Prandtl(cp_l, mu_l, k_l)
    IN  IF ~pt.parsed THEN Raised(<<>>, temp, press)
        ELSE IF Rejected(rej, pt.q) THEN Raised(<<pt.q>>, temp, press)
        ELSE IF FatalAt(qs, {}, rej) # {} THEN Raised(log, pt.temp, pt.press)
        ELSE Returned(
               [mode |-> "Saturated",
                inputs |-> [fluid |-> fluid, T_K |-> pt.T_K, P_kPa |-> pt.P_kPa],
                liquid_props |->
                    [rho_l |-> rho_l, mu_l |-> mu_l, cp_l |-> cp_l,
                     cv_l |-> PropsSI(qs[4]), k_l |-> k_l, sigma |-> sigma,
                     h_l |-> h_l, s_l |-> PropsSI(qs[8]),
                     sound_l |-> PropsSI(qs[9])],
                vapor_props |->
                    [rho_v |-> rho_v, mu_v |-> PropsSI(qs[11]),
                     cp_v |-> PropsSI(qs[12]), cv_v |-> PropsSI(qs[13]),
                     h_v |-> h_v, s_v |-> PropsSI(qs[15]),
                     sound_v |-> PropsSI(qs[16])],
                phase_change_props |-> [h_fg |-> RSub(h_v, h_l)],
                dimensionless_numbers |->
                    [Re_l |-> Re_l, Pr_l |-> Pr_l,
                     Bo |-> Bond(rho_l, rho_v, D_m, sigma),
                     We_l |-> Weber(rho_l, u_ms, D_m, sigma),
                     Pe_l |-> RMul(Re_l, Pr_l),
                     Fr_l |-> Froude(u_ms, D_m),
                     Ca_l |-> Capillary(mu_l, u_ms, sigma)]],
               log, pt.temp, pt.press)

\* variant: the branch tests the number read, so that Q = 0 counts as absent
calculate_saturated_properties_falsy_zero(fluid, D_m, u_ms, basis, temp, press, quality, rej) ==
    IF quality.k # "empty" /\ ~(FloatOk(quality) /\ FloatOf(quality) = Zero)
    THEN TwoPhaseBranch(fluid, D_m, u_ms, basis, temp, press, quality, rej)
    ELSE SaturatedBranch(fluid, D_m, u_ms, basis, temp, press, rej)

\* quality_str = self.quality.get(); if quality_str: ... (the empty string
\* is the only false text)
calculate_saturated_properties(fluid, D_m, u_ms, basis, temp, press, quality, rej) ==
    IF quality.k # "empty"
    THEN TwoPhaseBranch(fluid, D_m, u_ms, basis, temp, press, quality, rej)
    ELSE SaturatedBranch(fluid, D_m, u_ms, basis, temp, press, rej)

\* variant: the comparison is not strict
PhaseLabel_tie_liquid(T_K, T_sat) ==
    IF RLe(T_K, T_sat) THEN "Subcooled Liquid" ELSE "Superheated Vapor"

\* if T_K < T_sat: "Subcooled Liquid" else "Superheated Vapor"
PhaseLabel(T_K, T_sat) ==
    IF RLt(T_K, T_sat) THEN "Subcooled Liquid" ELSE "Superheated Vapor"

\* the saturation temperature query, then the eight property queries
NonSaturatedQueries(T_K, P_Pa, fluid) ==
    << Query("T", "P", P_Pa, "Q", Zero, fluid),
       Query("D", "T", T_K, "P", P_Pa, fluid),
       Query("V", "T", T_K, "P", P_Pa, fluid),
       Query("C", "T", T_K, "P", P_Pa, fluid),
       Query("CVMASS", "T", T_K, "P", P_Pa, fluid),
       Query("L", "T", T_K, "P", P_Pa, fluid),
       Query("H", "T", T_K, "P", P_Pa, fluid),
       Query("S", "T", T_K, "P", P_Pa, fluid),
       Query("A", "T", T_K, "P", P_Pa, fluid) >>

\* variant: the speed-of-sound failure is swallowed here too
NonSaturatedCaught_sound == {9}

\* no try/except around any query of the non-saturated branch
NonSaturatedCaught == {}

\* variant: the pressure is read and the saturation temperature queried
\* before the temperature entry is read
calculate_nonsaturated_properties_query_first(fluid, D_m, u_ms, temp, press, rej) ==
    LET T_K == FloatOf(temp)
        P_kPa == FloatOf(press)
        P_Pa == RMul(P_kPa, <<1000, 1>>)
        qs == NonSaturatedQueries(T_K, P_Pa, fluid)
        rho == PropsSI(qs[2])
        mu == PropsSI(qs[3])
        cp == PropsSI(qs[4])
        k == PropsSI(qs[6])
        sound == IF Rejected(rej, qs[9]) THEN None ELSE PropsSI(qs[9])
        Re == Reynolds(rho, u_ms, D_m, mu)
        Pr == Prandtl(cp, mu, k)
    IN  IF ~FloatOk(press) THEN Raised(<<>>, temp, press)
        ELSE IF ~FloatOk(temp)
        THEN Raised(Issued(<<qs[1]>>, NonSaturatedCaught, rej), temp, press)
        ELSE IF FatalAt(qs, NonSaturatedCaught, rej) # {}
        THEN Raised(Issued(qs, NonSaturatedCaught, rej), temp, press)
        ELSE Returned(
               [mode |-> "Non-Saturated",
                inputs |-> [fluid |-> fluid, T_K |-> T_K, P_kPa |-> P_kPa],
                phase |-> PhaseLabel(T_K, PropsSI(qs[1])),
                properties |-> [rho |-> rho, mu |-> mu, cp |-> cp,
                                cv |-> PropsSI(qs[5]), k |-> k,
                                h |-> PropsSI(qs[7]), s |-> PropsSI(qs[8]),
                                sound |-> sound],
                dimensionless_numbers |->
                    [Re |-> Re, Pr |-> Pr, Pe |-> RMul(Re, Pr),
                     Fr |-> Froude(u_ms, D_m)]],
               Issued(qs, NonSaturatedCaught, rej), temp, press)

\* float(temp_k), float(press_kpa), then the queries; no entry is written
calculate_nonsaturated_properties(fluid, D_m, u_ms, temp, press, rej) ==
    LET T_K == FloatOf(temp)
        P_kPa == FloatOf(press)
        P_Pa == RMul(P_kPa, <<1000, 1>>)
        qs == NonSaturatedQueries(T_K, P_Pa, fluid)
        rho == PropsSI(qs[2])
        mu == PropsSI(qs[3])
        cp == PropsSI(qs[4])
        k == PropsSI(qs[6])
        sound == IF Rejected(rej, qs[9]) THEN None ELSE PropsSI(qs[9])
        Re == Reynolds(rho, u_ms, D_m, mu)
        Pr == Prandtl(cp, mu, k)
    IN  IF ~(FloatOk(temp) /\ FloatOk(press)) THEN Raised(<<>>, temp, press)
        ELSE IF FatalAt(qs, NonSaturatedCaught, rej) # {}
        THEN Raised(Issued(qs, NonSaturatedCaught, rej), temp, press)
        ELSE Returned(
               [mode |-> "Non-Saturated",
                inputs |-> [fluid |-> fluid, T_K |-> T_K, P_kPa |-> P_kPa],
                phase |-> PhaseLabel(T_K, PropsSI(qs[1])),
                properties |-> [rho |-> rho, mu |-> mu, cp |-> cp,
                                cv |-> PropsSI(qs[5]), k |-> k,
                                h |-> PropsSI(qs[7]), s |-> PropsSI(qs[8]),
                                sound |-> sound],
                dimensionless_numbers |->
                    [Re |-> Re, Pr |-> Pr, Pe |-> RMul(Re, Pr),
                     Fr |-> Froude(u_ms, D_m)]],
               Issued(qs, NonSaturatedCaught, rej), temp, press)

\* the try block of _calculate_properties; any exception returns None
calculate_properties(mode, basis, fluid, temp, press, diam, vel, quality, rej) ==
    LET D_m == RDiv(FloatOf(diam), <<1000, 1>>)
        u_ms == FloatOf(vel)
    IN  IF ~(FloatOk(diam) /\ FloatOk(vel))
        THEN Raised(<<>>, temp, press)
        ELSE IF mode = "Saturated"
        THEN calculate_saturated_properties(fluid, D_m, u_ms, basis, temp,
                                            press, quality, rej)
        ELSE calculate_nonsaturated_properties(fluid, D_m, u_ms, temp, press, rej)

\* ------------------------------------------------------------------------
\* The correlation pass (on_calculate_h_nu), as a function of what it reads
\* ------------------------------------------------------------------------

\* texts of the three correlation outputs: "" (blank), "N/A (两相流)" (na),
\* "计算错误" (error), or the formatted value computed from the arguments
\* `of` (the logarithm and the fractional powers are not evaluated: an
\* output is identified by the numbers it was computed from)
Blank == [k |-> "blank", of |-> <<>>, info |-> ""]
NotApplicable == [k |-> "na", of |-> <<>>, info |-> ""]
ErrorText == [k |-> "error", of |-> <<>>, info |-> ""]
Computed(args, info) == [k |-> "num", of |-> args, info |-> info]

\* math.log(Re) raises ValueError unless Re > 0
PetukhovDefined(Re) == RLt(Zero, Re)

\* if not (3000 < Re < 5e6) ... if not (0.5 <= Pr <= 2000) ...
RangeWarnings(Re, Pr) ==
    (IF RLt(<<3000, 1>>, Re) /\ RLt(Re, <<5000000, 1>>) THEN {} ELSE {"Re"})
    \cup
    (IF RLe(<<1, 2>>, Pr) /\ RLe(Pr, <<2000, 1>>) THEN {} ELSE {"Pr"})

\* variant: for a Saturated record Pe_l is picked in the place of Pr_l
CorrelationInputs_peclet(last) ==
    IF last.mode = "Saturated"
    THEN [Re |-> last.dimensionless_numbers.Re_l,
          Pr |-> last.dimensionless_numbers.Pe_l,
          k |-> last.liquid_props.k_l,
          info |-> "liquid"]
    ELSE [Re |-> last.dimensionless_numbers.Re,
          Pr |-> last.dimensionless_numbers.Pr,
          k |-> last.properties.k,
          info |-> IF last.phase = "Subcooled Liquid" THEN "subcooled"
                   ELSE "superheated"]

\* Re, Pr, k and the info text picked from the stored record
CorrelationInputs(last) ==
    IF last.mode = "Saturated"
    THEN [Re |-> last.dimensionless_numbers.Re_l,
          Pr |-> last.dimensionless_numbers.Pr_l,
          k |-> last.liquid_props.k_l,
          info |-> "liquid"]
    ELSE [Re |-> last.dimensionless_numbers.Re,
          Pr |-> last.dimensionless_numbers.Pr,
          k |-> last.properties.k,
          info |-> IF last.phase = "Subcooled Liquid" THEN "subcooled"
                   ELSE "superheated"]

HNu(kind, warnings, f, nu, h) ==
    [kind |-> kind, warnings |-> warnings, darcy_f |-> f, nusselt_nu |-> nu,
     htc_h |-> h]

\* variant: the diameter is read and checked before the mode of the record
correlate_diameter_first(last, diam, f0, nu0, h0) ==
    IF last = None THEN HNu("nodata", {}, f0, nu0, h0)
    ELSE IF ~FloatOk(diam) \/ RLe(RDiv(FloatOf(diam), <<1000, 1>>), Zero)
    THEN HNu("error", {}, ErrorText, ErrorText, Blank)
    ELSE IF last.mode = "TwoPhase"
    THEN HNu("na", {}, NotApplicable, NotApplicable, Blank)
    ELSE
    LET D_m == RDiv(FloatOf(diam), <<1000, 1>>)
        in == CorrelationInputs(last)
    IN  IF ~PetukhovDefined(in.Re)
        THEN HNu("error", {}, ErrorText, ErrorText, Blank)
        ELSE HNu("numeric", RangeWarnings(in.Re, in.Pr),
                 Computed(<<in.Re>>, in.info),
                 Computed(<<in.Re, in.Pr>>, ""),
                 Computed(<<in.Re, in.Pr, in.k, D_m>>, ""))

\* The outcome of on_calculate_h_nu on the stored record `last`, the
\* diameter entry `diam` and the current outputs f0, nu0, h0:
\* kind is "nodata", "na", "error" or "numeric".
\* (The other two raises of the try block need an exact float zero: the
\* Petukhov base 0.790*ln(Re) - 1.64 and the Gnielinski denominator.  For
\* the sample property values the denominator lies between 0.8 and 44 and
\* no rational Re makes the base zero, so neither is taken here.)
correlate(last, diam, f0, nu0, h0) ==
    IF last = None THEN HNu("nodata", {}, f0, nu0, h0)
    ELSE IF last.mode = "TwoPhase"
    THEN HNu("na", {}, NotApplicable, NotApplicable, Blank)
    ELSE
    LET D_m == RDiv(FloatOf(diam), <<1000, 1>>)
        in == CorrelationInputs(last)
    IN  IF ~FloatOk(diam) \/ RLe(D_m, Zero) \/ ~PetukhovDefined(in.Re)
        THEN HNu("error", {}, ErrorText, ErrorText, Blank)
        ELSE HNu("numeric", RangeWarnings(in.Re, in.Pr),
                 Computed(<<in.Re>>, in.info),
                 Computed(<<in.Re, in.Pr>>, ""),
                 Computed(<<in.Re, in.Pr, in.k, D_m>>, ""))

\* ------------------------------------------------------------------------
\* State
\* ------------------------------------------------------------------------

VARIABLES
    calc_mode,       \* "Saturated" or "Non-Saturated"
    calc_basis,      \* "T" or "P"
    selected_fluid,
    temp_k, press_kpa, diameter_mm, velocity_ms, quality,   \* entry texts
    last_results,    \* None or the record of the last successful calculation
    darcy_f, nusselt_nu, htc_h,                             \* output texts
    outcome,         \* what the most recent event did (observation only)
    nOps             \* number of events so far

vars == <<calc_mode, calc_basis, selected_fluid, temp_k, press_kpa,
          diameter_mm, velocity_ms, quality, last_results, darcy_f,
          nusselt_nu, htc_h, outcome, nOps>>

\* outcome of an event that runs no calculation
Quiet(op) ==
    [op |-> op, ok |-> TRUE, result |-> None, log |-> <<>>, rejected |-> {},
     box |-> "none", warnings |-> {}, pre |-> <<Empty, Empty>>,
     prior |-> "other"]

\* what a correlation pass came right after: another correlation pass
\* ("h_nu"), a calculation that failed ("failed") or anything else ("other")
Prior ==
    IF outcome.op = "h_nu" THEN "h_nu"
    ELSE IF outcome.op = "calculate" /\ ~outcome.ok THEN "failed"
    ELSE "other"

\* texts the user types into an entry (an entry left alone keeps its text)
TempTexts == {Num(300000), Num(372760)}
PressTexts == {Num(100000)}
DiameterTexts == {Num(0), Num(10900)}
VelocityTexts == {Num(0), Num(1000)}
QualityTexts == {Junk, Num(0), Num(500), Num(1000), Num(1500)}

\* entry states set by on_mode_change / on_basis_change: an entry takes
\* typed text only in state "normal"
TempEditable == calc_mode = "Non-Saturated" \/ calc_basis = "T"
PressEditable == calc_mode = "Non-Saturated" \/ calc_basis = "P"
QualityEditable == calc_mode = "Saturated"

Init ==
    /\ calc_mode = "Saturated"
    /\ calc_basis = "T"
    /\ selected_fluid = "Helium"
    /\ temp_k = Empty
    /\ press_kpa = Empty
    /\ diameter_mm = Empty
    /\ velocity_ms = Empty
    /\ quality = Empty
    /\ last_results = None
    /\ darcy_f = Blank
    /\ nusselt_nu = Blank
    /\ htc_h = Blank
    /\ outcome = Quiet("init")
    /\ nOps = 0

Tick == nOps < MaxOps /\ nOps' = nOps + 1

\* the user retypes the entries that accept text
UserEdits ==
    /\ Tick
    /\ \E t \in TempTexts \cup {temp_k}, p \in PressTexts \cup {press_kpa},
          d \in DiameterTexts \cup {diameter_mm},
          u \in VelocityTexts \cup {velocity_ms},
          x \in QualityTexts \cup {quality} :
          /\ temp_k' = IF TempEditable THEN t ELSE temp_k
          /\ press_kpa' = IF PressEditable THEN p ELSE press_kpa
          /\ quality' = IF QualityEditable THEN x ELSE quality
          /\ diameter_mm' = d
          /\ velocity_ms' = u
    /\ <<temp_k', press_kpa', diameter_mm', velocity_ms', quality'>>
         # <<temp_k, press_kpa, diameter_mm, velocity_ms, quality>>
    /\ outcome' = Quiet("edit")
    /\ UNCHANGED <<calc_mode, calc_basis, selected_fluid, last_results,
                   darcy_f, nusselt_nu, htc_h>>

on_mode_change ==
    /\ Tick
    /\ \E m \in {"Saturated", "Non-Saturated"} :
          /\ calc_mode' = m
          /\ quality' = IF m = "Saturated" THEN quality ELSE Empty
    /\ outcome' = Quiet("mode")
    /\ UNCHANGED <<calc_basis, selected_fluid, temp_k, press_kpa, diameter_mm,
                   velocity_ms, last_results, darcy_f, nusselt_nu, htc_h>>

\* the basis radio buttons are disabled in Non-Saturated mode
on_basis_change ==
    /\ Tick
    /\ calc_mode = "Saturated"
    /\ \E b \in {"T", "P"} : calc_basis' = b
    /\ outcome' = Quiet("basis")
    /\ UNCHANGED <<calc_mode, selected_fluid, temp_k, press_kpa, diameter_mm,
                   velocity_ms, quality, last_results, darcy_f, nusselt_nu,
                   htc_h>>

\* (the critical/triple point labels it fills are display only)
on_fluid_select ==
    /\ Tick
    /\ \E f \in Fluids : selected_fluid' = f
    /\ outcome' = Quiet("fluid")
    /\ UNCHANGED <<calc_mode, calc_basis, temp_k, press_kpa, diameter_mm,
                   velocity_ms, quality, last_results, darcy_f, nusselt_nu,
                   htc_h>>

\* (the result text box it empties is display only; last_results and the
\* correlation outputs are not touched)
on_clear ==
    /\ Tick
    /\ temp_k' = Empty
    /\ press_kpa' = Empty
    /\ diameter_mm' = Empty
    /\ velocity_ms' = Empty
    /\ quality' = Empty
    /\ outcome' = Quiet("clear")
    /\ UNCHANGED <<calc_mode, calc_basis, selected_fluid, last_results,
                   darcy_f, nusselt_nu, htc_h>>

\* <FocusOut> of the temperature or pressure entry
auto_update_tp ==
    /\ Tick
    /\ calc_mode = "Saturated"
    /\ \E rej \in {NoReject, [out |-> "P", side |-> "all"],
                   [out |-> "T", side |-> "all"]} :
          \E pt \in {SaturationPoint(calc_basis, temp_k, press_kpa, Zero,
                                     selected_fluid)},
             src \in {IF calc_basis = "T" THEN temp_k ELSE press_kpa} :
              /\ temp_k' = IF calc_basis = "T" \/ src.k = "empty" THEN temp_k
                           ELSE IF ~pt.parsed \/ Rejected(rej, pt.q) THEN Empty
                           ELSE pt.temp
              /\ press_kpa' = IF calc_basis = "P" \/ src.k = "empty" THEN press_kpa
                              ELSE IF ~pt.parsed \/ Rejected(rej, pt.q) THEN Empty
                              ELSE pt.press
              /\ outcome' = [Quiet("focus_out") EXCEPT
                               !.log = IF src.k = "empty" \/ ~pt.parsed THEN <<>>
                                       ELSE <<pt.q>>,
                               !.rejected =
                                   IF src.k = "empty" \/ ~pt.parsed THEN {}
                                   ELSE RejectedIn(<<pt.q>>, rej),
                               !.pre = <<temp_k, press_kpa>>]
    /\ UNCHANGED <<calc_mode, calc_basis, selected_fluid, diameter_mm,
                   velocity_ms, quality, last_results, darcy_f, nusselt_nu,
                   htc_h>>

\* variant: the slot is assigned whatever the calculation returned
on_calculate_store_always ==
    /\ Tick
    /\ \E rej \in Rejections :
          \E r \in {calculate_properties(calc_mode, calc_basis, selected_fluid,
                                        temp_k, press_kpa, diameter_mm,
                                        velocity_ms, quality, rej)} :
              /\ darcy_f' = Blank
              /\ nusselt_nu' = Blank
              /\ htc_h' = Blank
              /\ temp_k' = r.temp
              /\ press_kpa' = r.press
              /\ last_results' = r.result
              /\ outcome' = [op |-> "calculate", ok |-> r.ok,
                             result |-> r.result, log |-> r.log,
                             box |-> IF r.ok THEN "none" ELSE "error",
                             rejected |-> RejectedIn(r.log, rej),
                             warnings |-> {},
                             pre |-> <<temp_k, press_kpa>>,
                             prior |-> "other"]
    /\ UNCHANGED <<calc_mode, calc_basis, selected_fluid, diameter_mm,
                   velocity_ms, quality>>

\* the Calculate button
on_calculate ==
    /\ Tick
    /\ \E rej \in Rejections :
          \E r \in {calculate_properties(calc_mode, calc_basis, selected_fluid,
                                        temp_k, press_kpa, diameter_mm,
                                        velocity_ms, quality, rej)} :
              /\ darcy_f' = Blank
              /\ nusselt_nu' = Blank
              /\ htc_h' = Blank
              /\ temp_k' = r.temp
              /\ press_kpa' = r.press
              /\ last_results' = IF r.ok THEN r.result ELSE last_results
              /\ outcome' = [op |-> "calculate", ok |-> r.ok,
                             result |-> r.result, log |-> r.log,
                             box |-> IF r.ok THEN "none" ELSE "error",
                             rejected |-> RejectedIn(r.log, rej),
                             warnings |-> {},
                             pre |-> <<temp_k, press_kpa>>,
                             prior |-> "other"]
    /\ UNCHANGED <<calc_mode, calc_basis, selected_fluid, diameter_mm,
                   velocity_ms, quality>>

\* variant: the pass consumes the stored record
on_calculate_h_nu_consuming ==
    /\ Tick
    /\ \E c \in {correlate(last_results, diameter_mm, darcy_f, nusselt_nu, htc_h)} :
           /\ darcy_f' = c.darcy_f
           /\ nusselt_nu' = c.nusselt_nu
           /\ htc_h' = c.htc_h
           /\ last_results' = None
           /\ outcome' = [Quiet("h_nu") EXCEPT
                            !.ok = c.kind = "numeric",
                            !.box = IF c.kind = "numeric"
                                    THEN (IF c.warnings = {} THEN "none"
                                          ELSE "range")
                                    ELSE c.kind,
                            !.warnings = c.warnings,
                            !.prior = Prior]
    /\ UNCHANGED <<calc_mode, calc_basis, selected_fluid, temp_k, press_kpa,
                   diameter_mm, velocity_ms, quality>>

\* the Nu & h button
on_calculate_h_nu ==
    /\ Tick
    /\ \E c \in {correlate(last_results, diameter_mm, darcy_f, nusselt_nu, htc_h)} :
           /\ darcy_f' = c.darcy_f
           /\ nusselt_nu' = c.nusselt_nu
           /\ htc_h' = c.htc_h
           /\ outcome' = [Quiet("h_nu") EXCEPT
                            !.ok = c.kind = "numeric",
                            !.box = IF c.kind = "numeric"
                                    THEN (IF c.warnings = {} THEN "none"
                                          ELSE "range")
                                    ELSE c.kind,
                            !.warnings = c.warnings,
                            !.prior = Prior]
    /\ UNCHANGED <<calc_mode, calc_basis, selected_fluid, temp_k, press_kpa,
                   diameter_mm, velocity_ms, quality, last_results>>

Next ==
    \/ UserEdits
    \/ on_mode_change
    \/ on_basis_change
    \/ on_fluid_select
    \/ on_clear
    \/ auto_update_tp
    \/ on_calculate
    \/ on_calculate_h_nu

Spec == Init /\ [][Next]_vars

\* ------------------------------------------------------------------------
\* Properties
\* ------------------------------------------------------------------------

HasResult == last_results # None

AfterCalculate == outcome.op = "calculate"

AfterHNu == outcome.op = "h_nu"

\* C1: a correlation pass over a stored TwoPhase record ends in the
\* not-applicable outcome, with f and Nu showing N/A and h blank, whatever
\* the diameter entry holds.
C1_TwoPhaseNotApplicable ==
    (AfterHNu /\ HasResult /\ last_results.mode = "TwoPhase")
    => /\ outcome.box = "na"
       /\ ~outcome.ok
       /\ darcy_f = NotApplicable
       /\ nusselt_nu = NotApplicable
       /\ htc_h = Blank

\* C1 reached with a diameter entry that float() cannot read
C1_Witness ==
    /\ AfterHNu
    /\ HasResult
    /\ last_results.mode = "TwoPhase"
    /\ ~FloatOk(diameter_mm)
    /\ outcome.box = "na"

\* the calculation ran the two-phase branch (Saturated mode, quality typed)
QualityTyped == calc_mode = "Saturated" /\ quality.k # "empty"

\* the typed quality is a number outside [0, 1]
QualityOutside ==
    /\ FloatOk(quality)
    /\ \/ RLt(FloatOf(quality), Zero)
       \/ RLt(One, FloatOf(quality))

\* the typed quality is a number inside [0, 1]
QualityInside ==
    /\ FloatOk(quality)
    /\ RLe(Zero, FloatOf(quality))
    /\ RLe(FloatOf(quality), One)

\* C2: a calculation with a quality outside [0, 1] ends in the error box,
\* returns no record and issues no oracle query; in Non-Saturated mode the
\* quality entry is disabled and empty, so the case arises in Saturated mode.
C2_QualityOutOfRangeRejected ==
    /\ calc_mode = "Non-Saturated" => quality = Empty
    /\ (AfterCalculate /\ QualityOutside)
       => /\ ~outcome.ok
          /\ outcome.box = "error"
          /\ outcome.result = None
          /\ outcome.log = <<>>

\* C2 reached with Q = 1.5 as the only fault of the form
C2_Witness ==
    /\ AfterCalculate
    /\ quality = Num(1500)
    /\ FloatOk(diameter_mm) /\ FloatOk(velocity_ms) /\ FloatOk(temp_k)
    /\ calc_basis = "T"
    /\ outcome.box = "error"
    /\ outcome.log = <<>>

\* C3 as stated: with a quality supplied, every oracle query issued carries
\* the supplied Q, the surface tension query included.
C3_AllQueriesAtQ ==
    (AfterCalculate /\ QualityTyped /\ QualityInside)
    => \A i \in 1..Len(outcome.log) :
          /\ outcome.log[i].n2 = "Q"
          /\ outcome.log[i].v2 = FloatOf(quality)

\* C3 amended: with a quality supplied, the state query and every mixture
\* property query carry the supplied Q; the surface tension query is issued
\* at Q = 0.
C3_QueriesAtQExceptSigma ==
    (AfterCalculate /\ QualityTyped /\ QualityInside)
    => \A i \in 1..Len(outcome.log) :
          /\ outcome.log[i].n2 = "Q"
          /\ outcome.log[i].out # "I" => outcome.log[i].v2 = FloatOf(quality)
          /\ outcome.log[i].out = "I" => outcome.log[i].v2 = Zero

\* C3 reached: a two-phase calculation at Q = 0.5 that issued all ten queries
C3_Witness ==
    /\ AfterCalculate
    /\ QualityTyped
    /\ quality = Num(500)
    /\ outcome.ok
    /\ Len(outcome.log) = 10
    /\ outcome.log[10].out = "I"

\* the oracle rejected the speed-of-sound query and no other
OnlySoundRejected ==
    /\ outcome.rejected # {}
    /\ \A q \in outcome.rejected : q.out = "A"

\* C4: in the two-phase branch a rejected speed-of-sound query is not
\* fatal: the record is returned with sound = None and is stored.
C4_TwoPhaseSoundAbsent ==
    (AfterCalculate /\ QualityTyped /\ OnlySoundRejected)
    => /\ outcome.ok
       /\ outcome.box = "none"
       /\ outcome.result.mode = "TwoPhase"
       /\ outcome.result.properties.sound = None
       /\ outcome.result.properties.sound # Zero
       /\ last_results = outcome.result

\* C4 reached at Q = 0.5
C4_Witness ==
    /\ AfterCalculate
    /\ QualityTyped
    /\ quality = Num(500)
    /\ OnlySoundRejected
    /\ outcome.ok
    /\ last_results.properties.sound = None

\* some rejected query is not the two-phase speed-of-sound query
FatalRejection ==
    \E q \in outcome.rejected : ~(q.out = "A" /\ QualityTyped)

\* C5: any other rejected query is fatal: the calculation ends in the error
\* box and returns no record; a returned record lacks no property except
\* the two-phase speed of sound.
C5_OtherFailuresFatal ==
    /\ (AfterCalculate /\ FatalRejection)
       => /\ ~outcome.ok
          /\ outcome.box = "error"
          /\ outcome.result = None
    /\ (AfterCalculate /\ outcome.ok /\ outcome.result.mode = "Non-Saturated")
       => /\ outcome.rejected = {}
          /\ outcome.result.properties.sound # None
    /\ (AfterCalculate /\ outcome.ok /\ outcome.result.mode = "Saturated")
       => /\ outcome.rejected = {}
          /\ outcome.result.liquid_props.sound_l # None
          /\ outcome.result.vapor_props.sound_v # None

\* C5 reached: the speed-of-sound query rejected in Non-Saturated mode
C5_Witness ==
    /\ AfterCalculate
    /\ calc_mode = "Non-Saturated"
    /\ \E q \in outcome.rejected : q.out = "A"
    /\ ~outcome.ok
    /\ Len(outcome.log) = 9

\* the calculation ran the dual-branch part (Saturated mode, no quality)
NoQuality == calc_mode = "Saturated" /\ quality.k = "empty"

\* the entries the current mode and basis read all parse (the calculation
\* leaves the entries it reads as they were)
EntriesParse ==
    /\ FloatOk(diameter_mm)
    /\ FloatOk(velocity_ms)
    /\ calc_mode = "Saturated" /\ calc_basis = "T" => FloatOk(temp_k)
    /\ calc_mode = "Saturated" /\ calc_basis = "P" => FloatOk(press_kpa)
    /\ calc_mode = "Non-Saturated" => FloatOk(temp_k) /\ FloatOk(press_kpa)
    /\ QualityTyped => QualityInside

\* the state query a dual-branch calculation must start with
ExpectedStateQuery ==
    IF calc_basis = "T"
    THEN Query("P", "T", FloatOf(temp_k), "Q", Zero, selected_fluid)
    ELSE Query("T", "P", RMul(FloatOf(press_kpa), <<1000, 1>>), "Q", Zero,
               selected_fluid)

\* C6: a successful dual-branch calculation queries the conjugate variable
\* at Q = 0, its record carries the oracle's value (the pressure in kPa),
\* and the opposite entry shows that value to two decimals whatever it held;
\* no text of the opposite entry makes the calculation fail.
C6_ConjugateDerivedAndOverwritten ==
    /\ (AfterCalculate /\ NoQuality /\ outcome.ok)
       => /\ outcome.log[1] = ExpectedStateQuery
          /\ calc_basis = "T"
             => /\ outcome.result.inputs.T_K = FloatOf(temp_k)
                /\ outcome.result.inputs.P_kPa
                     = RDiv(PropsSI(ExpectedStateQuery), <<1000, 1>>)
                /\ press_kpa = Fmt2(outcome.result.inputs.P_kPa)
                /\ temp_k = outcome.pre[1]
          /\ calc_basis = "P"
             => /\ outcome.result.inputs.P_kPa = FloatOf(press_kpa)
                /\ outcome.result.inputs.T_K = PropsSI(ExpectedStateQuery)
                /\ temp_k = Fmt2(outcome.result.inputs.T_K)
                /\ press_kpa = outcome.pre[2]
    /\ (AfterCalculate /\ NoQuality /\ EntriesParse /\ outcome.rejected = {})
       => outcome.ok

\* C6 reached: the pressure entry held another number before
C6_Witness ==
    /\ AfterCalculate
    /\ NoQuality
    /\ outcome.ok
    /\ calc_basis = "T"
    /\ outcome.pre[2].k = "num"
    /\ outcome.pre[2] # press_kpa

\* C7: the phase label of a Non-Saturated record is Subcooled Liquid exactly
\* when T is strictly below the oracle's saturation temperature at P and
\* Q = 0, and Superheated Vapor otherwise (T = Tsat included).
C7_PhaseLabel ==
    (AfterCalculate /\ calc_mode = "Non-Saturated" /\ outcome.ok)
    => LET q == Query("T", "P", RMul(FloatOf(press_kpa), <<1000, 1>>), "Q",
                      Zero, selected_fluid)
           below == RLt(FloatOf(temp_k), PropsSI(q))
       IN  /\ outcome.log[1] = q
           /\ outcome.result.phase \in {"Subcooled Liquid", "Superheated Vapor"}
           /\ outcome.result.phase = "Subcooled Liquid" <=> below
           /\ outcome.result.phase = "Superheated Vapor" <=> ~below

\* C7 reached on the boundary T = Tsat
C7_Witness ==
    /\ AfterCalculate
    /\ calc_mode = "Non-Saturated"
    /\ outcome.ok
    /\ FloatOf(temp_k)
         = PropsSI(Query("T", "P", RMul(FloatOf(press_kpa), <<1000, 1>>), "Q",
                         Zero, selected_fluid))
    /\ outcome.result.phase = "Superheated Vapor"

\* C8 as stated: a calculation whose diameter is D <= 0 returns no record.
C8_NonPositiveDiameterRejected ==
    (AfterCalculate /\ FloatOk(diameter_mm) /\ RLe(FloatOf(diameter_mm), Zero))
    => /\ ~outcome.ok
       /\ outcome.result = None

\* C9 as stated: over a single-phase record and D > 0, a range violation of
\* Re or Pr still gives numeric f, Nu and h, with the warning attached.
C9_RangeViolationAdvisory ==
    (/\ AfterHNu
     /\ HasResult
     /\ last_results.mode # "TwoPhase"
     /\ FloatOk(diameter_mm)
     /\ RLt(Zero, FloatOf(diameter_mm))
     /\ RangeWarnings(CorrelationInputs(last_results).Re,
                      CorrelationInputs(last_results).Pr) # {})
    => /\ outcome.ok
       /\ outcome.box = "range"
       /\ darcy_f.k = "num"
       /\ nusselt_nu.k = "num"
       /\ htc_h.k = "num"

\* no rejected query of the run was fatal
NoFatalRejection == ~FatalRejection

\* C10: with velocity 0, parsing entries and no fatal oracle failure, the
\* calculation returns a record whose Re, We, Ca and Fr (those the record
\* has) are all 0.
C10_ZeroVelocity ==
    (/\ AfterCalculate
     /\ EntriesParse
     /\ NoFatalRejection
     /\ FloatOf(velocity_ms) = Zero)
    => /\ outcome.ok
       /\ outcome.result.mode = "Saturated"
          => /\ outcome.result.dimensionless_numbers.Re_l = Zero
             /\ outcome.result.dimensionless_numbers.We_l = Zero
             /\ outcome.result.dimensionless_numbers.Ca_l = Zero
             /\ outcome.result.dimensionless_numbers.Fr_l = Zero
       /\ outcome.result.mode = "TwoPhase"
          => /\ outcome.result.dimensionless_numbers.Re = Zero
             /\ outcome.result.dimensionless_numbers.Ca = Zero
             /\ outcome.result.dimensionless_numbers.Fr = Zero
       /\ outcome.result.mode = "Non-Saturated"
          => /\ outcome.result.dimensionless_numbers.Re = Zero
             /\ outcome.result.dimensionless_numbers.Fr = Zero

\* C10 reached: zero velocity in a tube of positive diameter
C10_Witness ==
    /\ AfterCalculate
    /\ outcome.ok
    /\ velocity_ms = Num(0)
    /\ diameter_mm = Num(10900)
    /\ selected_fluid = "Water"
    /\ outcome.result.mode = "Saturated"
    /\ outcome.result.dimensionless_numbers.Fr_l = Zero

\* the diameter entry parses to a D with g * D <= 0
NonPositiveGD ==
    /\ FloatOk(diameter_mm)
    /\ RLe(RMul(Gravity, RDiv(FloatOf(diameter_mm), <<1000, 1>>)), Zero)

\* the surface tension a two-phase run was answered: its tenth query
TwoPhaseSigma == PropsSI(outcome.log[10])

\* C11: a zero divisor gives the value 0 and no error: in every returned
\* record Re is 0 when the viscosity is 0, Pr is 0 when the conductivity is
\* 0, Bo, We and Ca are 0 when the surface tension is 0 and Fr is 0 when
\* g * D <= 0; and a calculation with parsing entries and no fatal oracle
\* failure returns a record also when one of these divisors is 0.
C11_ZeroDivisorGivesZero ==
    /\ (AfterCalculate /\ outcome.ok /\ outcome.result.mode = "Saturated")
       => LET r == outcome.result
          IN  /\ r.liquid_props.mu_l = Zero => r.dimensionless_numbers.Re_l = Zero
              /\ r.liquid_props.k_l = Zero => r.dimensionless_numbers.Pr_l = Zero
              /\ r.liquid_props.sigma = Zero
                 => /\ r.dimensionless_numbers.Bo = Zero
                    /\ r.dimensionless_numbers.We_l = Zero
                    /\ r.dimensionless_numbers.Ca_l = Zero
              /\ NonPositiveGD => r.dimensionless_numbers.Fr_l = Zero
    /\ (AfterCalculate /\ outcome.ok /\ outcome.result.mode = "TwoPhase")
       => LET r == outcome.result
          IN  /\ r.properties.mu = Zero => r.dimensionless_numbers.Re = Zero
              /\ r.properties.k = Zero => r.dimensionless_numbers.Pr = Zero
              /\ TwoPhaseSigma = Zero => r.dimensionless_numbers.Ca = Zero
              /\ NonPositiveGD => r.dimensionless_numbers.Fr = Zero
    /\ (AfterCalculate /\ outcome.ok /\ outcome.result.mode = "Non-Saturated")
       => LET r == outcome.result
          IN  /\ r.properties.mu = Zero => r.dimensionless_numbers.Re = Zero
              /\ r.properties.k = Zero => r.dimensionless_numbers.Pr = Zero
              /\ NonPositiveGD => r.dimensionless_numbers.Fr = Zero
    /\ (/\ AfterCalculate
        /\ EntriesParse
        /\ NoFatalRejection
        /\ \/ NonPositiveGD
           \/ \E out \in ZeroOutputs :
                 LiquidValue(selected_fluid, out) = Zero)
       => outcome.ok

\* C11 reached: a dual-branch record with zero viscosity, conductivity and
\* surface tension, at positive velocity and diameter
C11_Witness ==
    /\ AfterCalculate
    /\ outcome.ok
    /\ outcome.result.mode = "Saturated"
    /\ outcome.result.liquid_props.mu_l = Zero
    /\ outcome.result.liquid_props.k_l = Zero
    /\ outcome.result.liquid_props.sigma = Zero
    /\ velocity_ms = Num(1000)
    /\ diameter_mm = Num(10900)
    /\ outcome.result.dimensionless_numbers.Bo = Zero

\* the record the calculation returns for the same mode, basis, fluid,
\* state entries, diameter and quality when the velocity entry holds twice
\* its number (the oracle answering every query)
AtDoubleVelocity ==
    calculate_properties(calc_mode, calc_basis, selected_fluid, temp_k,
                         press_kpa, diameter_mm, Num(2 * velocity_ms.v),
                         quality, NoReject).result

Twice(x) == RMul(<<2, 1>>, x)

FourTimes(x) == RMul(<<4, 1>>, x)

\* Re, Ca and Fr (those the record has) of record b are twice those of a
DoublesReCaFr(a, b) ==
    /\ b.mode = a.mode
    /\ a.mode = "Saturated"
       => /\ b.dimensionless_numbers.Re_l = Twice(a.dimensionless_numbers.Re_l)
          /\ b.dimensionless_numbers.Ca_l = Twice(a.dimensionless_numbers.Ca_l)
          /\ b.dimensionless_numbers.Fr_l = Twice(a.dimensionless_numbers.Fr_l)
    /\ a.mode = "TwoPhase"
       => /\ b.dimensionless_numbers.Re = Twice(a.dimensionless_numbers.Re)
          /\ b.dimensionless_numbers.Ca = Twice(a.dimensionless_numbers.Ca)
          /\ b.dimensionless_numbers.Fr = Twice(a.dimensionless_numbers.Fr)
    /\ a.mode = "Non-Saturated"
       => /\ b.dimensionless_numbers.Re = Twice(a.dimensionless_numbers.Re)
          /\ b.dimensionless_numbers.Fr = Twice(a.dimensionless_numbers.Fr)

\* C12 as stated: for the same fluid, state and diameter, doubling the
\* velocity doubles each of Re, We, Ca and Fr of the record.
C12_DoublingDoublesAll ==
    (AfterCalculate /\ outcome.ok)
    => /\ DoublesReCaFr(outcome.result, AtDoubleVelocity)
       /\ outcome.result.mode = "Saturated"
          => AtDoubleVelocity.dimensionless_numbers.We_l
               = Twice(outcome.result.dimensionless_numbers.We_l)

\* C12 amended: for the same fluid, state and diameter, doubling the
\* velocity doubles Re, Ca and Fr of the record and multiplies We by four;
\* the other fields of the inputs and the property values are the same.
C12_DoublingDoublesReCaFrQuadruplesWe ==
    (AfterCalculate /\ outcome.ok)
    => /\ DoublesReCaFr(outcome.result, AtDoubleVelocity)
       /\ AtDoubleVelocity.inputs = outcome.result.inputs
       /\ outcome.result.mode = "Saturated"
          => /\ AtDoubleVelocity.dimensionless_numbers.We_l
                  = FourTimes(outcome.result.dimensionless_numbers.We_l)
             /\ AtDoubleVelocity.liquid_props = outcome.result.liquid_props

\* C12 reached: a dual-branch record at u = 1 m/s with nonzero Re, We, Ca
\* and Fr, whose We at u = 2 m/s is four times as large
C12_Witness ==
    /\ AfterCalculate
    /\ outcome.ok
    /\ outcome.result.mode = "Saturated"
    /\ velocity_ms = Num(1000)
    /\ outcome.result.dimensionless_numbers.Re_l # Zero
    /\ outcome.result.dimensionless_numbers.We_l # Zero
    /\ outcome.result.dimensionless_numbers.Ca_l # Zero
    /\ outcome.result.dimensionless_numbers.Fr_l # Zero
    /\ AtDoubleVelocity.dimensionless_numbers.We_l
         = FourTimes(outcome.result.dimensionless_numbers.We_l)
    /\ AtDoubleVelocity.dimensionless_numbers.We_l
         # Twice(outcome.result.dimensionless_numbers.We_l)

\* the text is empty or float() raises on it
Unreadable(text) == text.k # "num"

\* some entry the calculation reads under the current mode and basis was
\* empty or non-numeric when the calculation started (an empty quality is
\* no fault: it selects the dual branch)
RequiredFieldMalformed ==
    \/ Unreadable(diameter_mm)
    \/ Unreadable(velocity_ms)
    \/ calc_mode = "Saturated" /\ calc_basis = "T" /\ Unreadable(outcome.pre[1])
    \/ calc_mode = "Saturated" /\ calc_basis = "P" /\ Unreadable(outcome.pre[2])
    \/ calc_mode = "Non-Saturated"
       /\ (Unreadable(outcome.pre[1]) \/ Unreadable(outcome.pre[2]))
    \/ calc_mode = "Saturated" /\ quality.k = "junk"

\* C13: a calculation started with an empty or non-numeric required entry
\* fails (error box, no record) without having issued any oracle query,
\* and writes no entry.
C13_MalformedInputBeforeOracle ==
    (AfterCalculate /\ RequiredFieldMalformed)
    => /\ ~outcome.ok
       /\ outcome.box = "error"
       /\ outcome.result = None
       /\ outcome.log = <<>>
       /\ <<temp_k, press_kpa>> = outcome.pre

\* C13 reached: in Non-Saturated mode the pressure, the diameter and the
\* velocity are numbers and only the temperature is missing
C13_Witness ==
    /\ AfterCalculate
    /\ calc_mode = "Non-Saturated"
    /\ ~Unreadable(diameter_mm)
    /\ ~Unreadable(velocity_ms)
    /\ ~Unreadable(press_kpa)
    /\ temp_k = Empty
    /\ outcome.log = <<>>
    /\ ~outcome.ok

\* C14: a correlation pass never changes the stored record, and a pass
\* that comes right after another pass (no event in between) leaves f, Nu
\* and h, and the box it shows, as the first pass left them.
C14_CorrelationIdempotentReadOnly ==
    [][outcome'.op = "h_nu"
       => /\ last_results' = last_results
          /\ outcome.op = "h_nu"
             => /\ <<darcy_f', nusselt_nu', htc_h'>>
                     = <<darcy_f, nusselt_nu, htc_h>>
                /\ outcome'.box = outcome.box
                /\ outcome'.warnings = outcome.warnings]_vars

\* C14 reached: a second pass in a row over a stored single-phase record,
\* with numeric outputs
C14_Witness ==
    /\ AfterHNu
    /\ outcome.prior = "h_nu"
    /\ HasResult
    /\ last_results.mode = "Saturated"
    /\ darcy_f.k = "num"
    /\ nusselt_nu.k = "num"
    /\ htc_h.k = "num"

\* C15: the record of a successful calculation is tagged TwoPhase exactly
\* when the mode is Saturated and the quality entry is not empty (Q = 0 and
\* Q = 1 included), Saturated exactly when the mode is Saturated and the
\* quality entry is empty, Non-Saturated exactly when the mode is
\* Non-Saturated; a Saturated record has a liquid and a vapor property
\* record, the others one property record; the TwoPhase record carries the
\* Q that was typed and the others carry no Q.
C15_RecordTaggedByInputs ==
    (AfterCalculate /\ outcome.ok)
    => LET r == outcome.result
       IN  /\ r.mode \in {"Saturated", "TwoPhase", "Non-Saturated"}
           /\ r.mode = "TwoPhase"
                <=> (calc_mode = "Saturated" /\ quality # Empty)
           /\ r.mode = "Saturated"
                <=> (calc_mode = "Saturated" /\ quality = Empty)
           /\ r.mode = "Non-Saturated" <=> calc_mode = "Non-Saturated"
           /\ r.mode = "Saturated"
                <=> {"liquid_props", "vapor_props"} \subseteq DOMAIN r
           /\ r.mode # "Saturated" <=> "properties" \in DOMAIN r
           /\ r.mode = "TwoPhase" <=> "Q" \in DOMAIN r.inputs
           /\ r.mode = "TwoPhase"
                => /\ quality.k = "num"
                   /\ r.inputs.Q = Rat(quality.v, 1000)

\* C15 reached: the quality typed is 0 and the record is a TwoPhase record
\* carrying Q = 0
C15_Witness ==
    /\ AfterCalculate
    /\ outcome.ok
    /\ quality = Num(0)
    /\ outcome.result.mode = "TwoPhase"
    /\ outcome.result.inputs.Q = Zero

\* C16: a calculation that fails leaves the stored record as it was and
\* blanks f, Nu and h; one that succeeds stores its record; no other event
\* (on_clear included) touches the slot, so a filled slot is never emptied;
\* a correlation pass reports "no data" exactly when the slot is empty, and
\* a pass that comes right after a failed calculation computes from the
\* record stored before it.
C16_FailedCalculationKeepsResult ==
    [][/\ (outcome'.op = "calculate" /\ ~outcome'.ok)
          => /\ last_results' = last_results
             /\ <<darcy_f', nusselt_nu', htc_h'>> = <<Blank, Blank, Blank>>
       /\ (outcome'.op = "calculate" /\ outcome'.ok)
          => /\ last_results' = outcome'.result
             /\ last_results' # None
       /\ outcome'.op # "calculate" => last_results' = last_results
       /\ last_results # None => last_results' # None
       /\ outcome'.op = "h_nu"
          => (outcome'.box = "nodata" <=> last_results = None)
       /\ (/\ outcome'.op = "h_nu"
           /\ outcome.op = "calculate"
           /\ ~outcome.ok
           /\ last_results # None)
          => /\ outcome'.box # "nodata"
             /\ last_results.mode = "TwoPhase" => darcy_f' = NotApplicable
             /\ darcy_f'.k = "num"
                => /\ darcy_f'.of = <<CorrelationInputs(last_results).Re>>
                   /\ nusselt_nu'.of = <<CorrelationInputs(last_results).Re,
                                         CorrelationInputs(last_results).Pr>>]_vars

\* C16 reached: a correlation pass right after a failed calculation gives
\* numeric outputs from the record of the calculation before it
C16_Witness ==
    /\ AfterHNu
    /\ outcome.prior = "failed"
    /\ HasResult
    /\ darcy_f.k = "num"
    /\ darcy_f.of = <<CorrelationInputs(last_results).Re>>
    /\ htc_h.k = "num"

\* some correlation output shows a number
NumericOutputs ==
    darcy_f.k = "num" \/ nusselt_nu.k = "num" \/ htc_h.k = "num"

\* Re, Pr and k of the stored record (its liquid side if it is Saturated)
StoredRePrK ==
    IF last_results.mode = "Saturated"
    THEN << last_results.dimensionless_numbers.Re_l,
            last_results.dimensionless_numbers.Pr_l,
            last_results.liquid_props.k_l >>
    ELSE << last_results.dimensionless_numbers.Re,
            last_results.dimensionless_numbers.Pr,
            last_results.properties.k >>

====
